---- MODULE Spec2Model ----
(***************************************************************************)
(* larascript-acl: role based access control over a static configuration   *)
(* (IAclConfig) and a mutable entity (IAccessControlEntity).               *)
(*                                                                         *)
(* Two surfaces are modelled side by side and driven by the same calls:    *)
(*   - BasicACLService, operating on an externally owned entity `data`     *)
(*     (definitions prefixed Svc_),                                        *)
(*   - the ComposableACL mixin, whose instance is the entity itself        *)
(*     (definitions prefixed Mix_).                                        *)
(*                                                                         *)
(* Value encodings                                                         *)
(*   string[] | null     [present : BOOLEAN, list : Seq(STRING)]           *)
(*   string | string[]   [str : BOOLEAN, v : STRING or Seq(STRING)]        *)
(*   string | IAclGroup  [str : BOOLEAN, v : STRING or group record]       *)
(*   return or throw     [kind : {"ok","NotFound"}, val : ...]             *)
(***************************************************************************)
EXTENDS Integers, Sequences, FiniteSets, TLC

VARIABLES
    aclConfig,    \* the IAclConfig given at construction (never written)
    dataRoles,    \* roles field of the external entity: string[] | null
    dataGroups,   \* groups field of the external entity: string[] | null
    aclRoles,     \* ComposableACL._aclRoles
    aclGroups,    \* ComposableACL._aclGroups
    op,           \* the call that has just completed, "idle" between calls
    arg,          \* its argument
    svcResult,    \* what BasicACLService returned or threw
    mixResult,    \* what the ComposableACL instance returned or threw
    pre,          \* the four entity fields as they were before the call
    appended,     \* <<name>> if the call before op was appendRoleToUser(name)
    pc,           \* per caller: position of its async mutation call
    call,         \* per caller: the call it made
    seen,         \* per caller: <<the role list its call found, writer then>>
    order,        \* callers with a call in flight, in the order they wrote
    writer        \* the caller whose call wrote the role list last, 0 if none

vars == <<aclConfig, dataRoles, dataGroups, aclRoles, aclGroups,
          op, arg, svcResult, mixResult, pre, appended, pc, call, seen, order, writer>>

entityVars == <<dataRoles, dataGroups, aclRoles, aclGroups>>
callVars   == <<op, arg, svcResult, mixResult, pre, appended>>
raceVars   == <<pc, call, seen, order, writer>>

----------------------------------------------------------------------------
(* Bounds *)

MaxRoles  == 3    \* longest role list an entity holds
MaxGroups == 2    \* longest group list an entity holds
MaxArg    == 2    \* longest list passed as an argument

----------------------------------------------------------------------------
(* Generic helpers *)

Range(s) == { s[i] : i \in 1..Len(s) }

SeqsUpTo(S, n) == UNION { [1..k -> S] : k \in 0..n }

\* the list cut after its first element
FirstOf(s) == IF s = <<>> THEN <<>> ELSE <<s[1]>>

\* the list without its last element
ButLast(s) == IF s = <<>> THEN <<>> ELSE SubSeq(s, 1, Len(s) - 1)

\* Array.prototype.includes
Includes(s, x) == \E i \in 1..Len(s) : s[i] = x

Absent    == [present |-> FALSE, list |-> <<>>]
Some(l)   == [present |-> TRUE,  list |-> l]

\* `x ?? []`
OrEmpty(x) == IF x.present THEN x.list ELSE <<>>

Str(s)  == [str |-> TRUE,  v |-> s]
Obj(x)  == [str |-> FALSE, v |-> x]

\* `typeof role === "string" ? [role] : role`
ToArray(role) == IF role.str THEN <<role.v>> ELSE role.v

Ok(v)           == [kind |-> "ok", val |-> v]
NotFound(k, n)  == [kind |-> "NotFound", val |-> <<k, n>>]
Undefined       == [kind |-> "undefined", val |-> <<>>]

----------------------------------------------------------------------------
(* Configurations *)

\* The configuration of the end-to-end example.
ConfigExample ==
    [ defaultGroup |-> "user",
      groups |-> << [name |-> "admin", roles |-> <<"role_admin">>],
                    [name |-> "user",  roles |-> <<"role_user">>] >>,
      roles  |-> << [name |-> "role_admin",
                     scopes |-> <<"read:all", "write:all", "delete:all">>],
                    [name |-> "role_user",
                     scopes |-> <<"read:own", "write:own">>] >> ]

\* Repeated and shared scopes, a group of two roles, a group with a dangling
\* role reference, and a defaultGroup that names no group.
ConfigLoose ==
    [ defaultGroup |-> "ghost",
      groups |-> << [name |-> "admin", roles |-> <<"role_admin", "role_user">>],
                    [name |-> "user",  roles |-> <<"role_user", "role_x">>] >>,
      roles  |-> << [name |-> "role_admin",
                     scopes |-> <<"read:all", "read:own", "read:all">>],
                    [name |-> "role_user",
                     scopes |-> <<"read:own">>] >> ]

Configs == {ConfigExample, ConfigLoose}

RoleNames  == {"role_admin", "role_user", "role_x"}
GroupNames == {"admin", "user", "ghost"}
EntityGroupNames == {"admin", "ghost"}
Scopes     == {"read:all", "read:own", "delete:all"}

\* IAclGroup values passed directly to getGroupRoles / getGroupScopes
GroupValues ==
    { [name |-> "adhoc",  roles |-> <<"role_user", "role_admin">>],
      [name |-> "broken", roles |-> <<"role_admin", "role_x">>],
      [name |-> "none",   roles |-> <<>>] }

RoleArgs  == { Str(n) : n \in RoleNames }
               \cup { Obj(l) : l \in SeqsUpTo(RoleNames, MaxArg) }
GroupArgs == { Str(n) : n \in EntityGroupNames }
               \cup { Obj(l) : l \in SeqsUpTo(EntityGroupNames, MaxArg) }
GroupRefs == { Str(n) : n \in GroupNames } \cup { Obj(g) : g \in GroupValues }
ScopeArgs == SeqsUpTo(Scopes, MaxArg)

----------------------------------------------------------------------------
(* Array helpers used by both surfaces *)

\* Array.prototype.find on a list of named records: the first entry whose
\* name matches, as a list of zero or one element.
RECURSIVE Find(_, _)
Find(list, name) ==
    IF list = <<>> THEN <<>>
    ELSE IF Head(list).name = name THEN <<Head(list)>>
    ELSE Find(Tail(list), name)

\* Array.prototype.flat on a list of lists
RECURSIVE Flat(_)
Flat(ls) == IF ls = <<>> THEN <<>> ELSE Head(ls) \o Flat(Tail(ls))

\* currentRoles.filter((r) => false === rolesArray.includes(r))
Without(current, rolesArray) ==
    SelectSeq(current, LAMBDA r : FALSE = Includes(rolesArray, r))

----------------------------------------------------------------------------
(* The entities *)

\* The external entity handed to BasicACLService keeps what it was last
\* given and answers null until then.
Data_getAcl(field) == field
Data_setAcl(list)  == Some(list)

\* ComposableACL.getAclRoles / getAclGroups: null for an empty field
Mix_getAcl(field) == IF Len(field) > 0 THEN Some(field) ELSE Absent
Mix_setAcl(list)  == list

----------------------------------------------------------------------------
(* BasicACLService *)

\* a getRole that falls back to the first role instead of throwing
Svc_getRole_Fallback(cfg, role) ==
    LET result == Find(cfg.roles, role)
    IN  IF result = <<>> THEN Ok(cfg.roles[1]) ELSE Ok(result[1])

\* getRole: aclConfig.roles.find(...), throwing when nothing is found
Svc_getRole(cfg, role) ==
    LET result == Find(cfg.roles, role)
    IN  IF result = <<>> THEN NotFound("Role", role) ELSE Ok(result[1])

\* getGroup: aclConfig.groups.find(...), throwing when nothing is found
Svc_getGroup(cfg, group) ==
    LET result == Find(cfg.groups, group)
    IN  IF result = <<>> THEN NotFound("Group", group) ELSE Ok(result[1])

Svc_getDefaultGroup(cfg) == Svc_getGroup(cfg, cfg.defaultGroup)

\* the loop `for (const r of roles) scopes = [...scopes, ...getRole(r).scopes]`
\* shared in shape by getRoleScopesFromUser and getRoleScopes; a throw of
\* getRole leaves the loop
RECURSIVE Svc_scopesLoop(_, _, _)
Svc_scopesLoop(cfg, roles, scopes) ==
    IF roles = <<>> THEN Ok(scopes)
    ELSE LET role == Svc_getRole(cfg, Head(roles))
         IN  IF role.kind = "NotFound" THEN role
             ELSE Svc_scopesLoop(cfg, Tail(roles), scopes \o role.val.scopes)

\* a getRoleScopesFromUser whose loop misses the last assigned role
Svc_getRoleScopesFromUser_DropLast(cfg, roles) ==
    IF ~roles.present THEN Ok(<<>>)
    ELSE Svc_scopesLoop(cfg, ButLast(roles.list), <<>>)

\* getRoleScopesFromUser; roles is what getAclRoles() returned
Svc_getRoleScopesFromUser(cfg, roles) ==
    IF ~roles.present THEN Ok(<<>>)
    ELSE Svc_scopesLoop(cfg, roles.list, <<>>)

Svc_getRoleScopes(cfg, role) == Svc_scopesLoop(cfg, ToArray(role), <<>>)

\* groupResult.roles.map((role) => this.getRole(role))
RECURSIVE Svc_mapGetRole(_, _)
Svc_mapGetRole(cfg, names) ==
    IF names = <<>> THEN Ok(<<>>)
    ELSE LET role == Svc_getRole(cfg, Head(names))
         IN  IF role.kind = "NotFound" THEN role
             ELSE LET rest == Svc_mapGetRole(cfg, Tail(names))
                  IN  IF rest.kind = "NotFound" THEN rest
                      ELSE Ok(<<role.val>> \o rest.val)

Svc_getGroupRoles(cfg, group) ==
    LET groupResult == IF group.str THEN Svc_getGroup(cfg, group.v)
                       ELSE Ok(group.v)
    IN  IF groupResult.kind = "NotFound" THEN groupResult
        ELSE Svc_mapGetRole(cfg, groupResult.val.roles)

\* a getGroupScopes that takes the scopes of the group's first role only
Svc_getGroupScopes_FirstRole(cfg, group) ==
    LET roles == Svc_getGroupRoles(cfg, group)
    IN  IF roles.kind = "NotFound" THEN roles
        ELSE IF roles.val = <<>> THEN Ok(<<>>)
        ELSE Ok(roles.val[1].scopes)

\* roles.map((role) => role.scopes).flat()
Svc_getGroupScopes(cfg, group) ==
    LET roles == Svc_getGroupRoles(cfg, group)
    IN  IF roles.kind = "NotFound" THEN roles
        ELSE Ok(Flat([i \in 1..Len(roles.val) |-> roles.val[i].scopes]))

\* The mutations: each returns the list it hands to the entity's setter.
\* current is what the entity's getter returned.
Svc_assignRoleToUser(role) == ToArray(role)

\* an appendRoleToUser that writes the new name alone
Svc_appendRoleToUser_Overwrite(current, role) == <<role>>

Svc_appendRoleToUser(current, role) == OrEmpty(current) \o <<role>>

Svc_removeRoleFromUser(current, role) ==
    Without(OrEmpty(current), ToArray(role))

Svc_assignGroupToUser(group) == ToArray(group)

Svc_appendGroupToUser(current, group) == OrEmpty(current) \o <<group>>

Svc_removeGroupFromUser(current, group) ==
    Without(OrEmpty(current), ToArray(group))

----------------------------------------------------------------------------
(* ComposableACL *)

\* getRole: aclConfig.roles.find(...), throwing when nothing is found
Mix_getRole(cfg, role) ==
    LET result == Find(cfg.roles, role)
    IN  IF result = <<>> THEN NotFound("Role", role) ELSE Ok(result[1])

\* getGroup: aclConfig.groups.find(...), throwing when nothing is found
Mix_getGroup(cfg, group) ==
    LET result == Find(cfg.groups, group)
    IN  IF result = <<>> THEN NotFound("Group", group) ELSE Ok(result[1])

Mix_getDefaultGroup(cfg) == Mix_getGroup(cfg, cfg.defaultGroup)

\* the loop `for (const r of roles) scopes = [...scopes, ...getRole(r).scopes]`
\* shared in shape by getRoleScopesFromUser and getRoleScopes; a throw of
\* getRole leaves the loop
RECURSIVE Mix_scopesLoop(_, _, _)
Mix_scopesLoop(cfg, roles, scopes) ==
    IF roles = <<>> THEN Ok(scopes)
    ELSE LET role == Mix_getRole(cfg, Head(roles))
         IN  IF role.kind = "NotFound" THEN role
             ELSE Mix_scopesLoop(cfg, Tail(roles), scopes \o role.val.scopes)

\* getRoleScopesFromUser; roles is what getAclRoles() returned
Mix_getRoleScopesFromUser(cfg, roles) ==
    IF ~roles.present THEN Ok(<<>>)
    ELSE Mix_scopesLoop(cfg, roles.list, <<>>)

Mix_getRoleScopes(cfg, role) == Mix_scopesLoop(cfg, ToArray(role), <<>>)

\* groupResult.roles.map((role) => this.getRole(role))
RECURSIVE Mix_mapGetRole(_, _)
Mix_mapGetRole(cfg, names) ==
    IF names = <<>> THEN Ok(<<>>)
    ELSE LET role == Mix_getRole(cfg, Head(names))
         IN  IF role.kind = "NotFound" THEN role
             ELSE LET rest == Mix_mapGetRole(cfg, Tail(names))
                  IN  IF rest.kind = "NotFound" THEN rest
                      ELSE Ok(<<role.val>> \o rest.val)

Mix_getGroupRoles(cfg, group) ==
    LET groupResult == IF group.str THEN Mix_getGroup(cfg, group.v)
                       ELSE Ok(group.v)
    IN  IF groupResult.kind = "NotFound" THEN groupResult
        ELSE Mix_mapGetRole(cfg, groupResult.val.roles)

\* roles.map((role) => role.scopes).flat()
Mix_getGroupScopes(cfg, group) ==
    LET roles == Mix_getGroupRoles(cfg, group)
    IN  IF roles.kind = "NotFound" THEN roles
        ELSE Ok(Flat([i \in 1..Len(roles.val) |-> roles.val[i].scopes]))

\* an assignRoleToUser that takes lists only
Mix_assignRoleToUser_NoWrap(role) == IF role.str THEN <<>> ELSE role.v

\* The mutations: each returns the list it hands to the entity's setter.
\* current is what the entity's getter returned.
Mix_assignRoleToUser(role) == ToArray(role)

\* an appendRoleToUser that skips a name already there
Mix_appendRoleToUser_Dedup(current, role) ==
    IF Includes(OrEmpty(current), role) THEN OrEmpty(current)
    ELSE OrEmpty(current) \o <<role>>

Mix_appendRoleToUser(current, role) == OrEmpty(current) \o <<role>>

\* a removeRoleFromUser that takes out the first of the given names only
Mix_removeRoleFromUser_FirstOnly(current, role) ==
    Without(OrEmpty(current), FirstOf(ToArray(role)))

Mix_removeRoleFromUser(current, role) ==
    Without(OrEmpty(current), ToArray(role))

Mix_assignGroupToUser(group) == ToArray(group)

Mix_appendGroupToUser(current, group) == OrEmpty(current) \o <<group>>

Mix_removeGroupFromUser(current, group) ==
    Without(OrEmpty(current), ToArray(group))

\* hasScope: roles is getAclRoles() ?? []
RECURSIVE Mix_hasScopeLoop(_, _, _)
Mix_hasScopeLoop(cfg, roles, scope) ==
    IF roles = <<>> THEN Ok(FALSE)
    ELSE LET role == Mix_getRole(cfg, Head(roles))
         IN  IF role.kind = "NotFound" THEN role
             ELSE IF Includes(role.val.scopes, scope) THEN Ok(TRUE)
             ELSE Mix_hasScopeLoop(cfg, Tail(roles), scope)

\* a hasScope that looks at the first assigned role only
Mix_hasScope_FirstRoleOnly(cfg, field, scope) ==
    Mix_hasScopeLoop(cfg, FirstOf(OrEmpty(Mix_getAcl(field))), scope)


Mix_hasScope(cfg, field, scope) ==
    Mix_hasScopeLoop(cfg, OrEmpty(Mix_getAcl(field)), scope)

\* a hasScopes that stops after the first scope
Mix_hasScopes_FirstOnly(cfg, field, scopes) ==
    IF scopes = <<>> THEN Ok(TRUE) ELSE Mix_hasScope(cfg, field, Head(scopes))

RECURSIVE Mix_hasScopes(_, _, _)
Mix_hasScopes(cfg, field, scopes) ==
    IF scopes = <<>> THEN Ok(TRUE)
    ELSE LET has == Mix_hasScope(cfg, field, Head(scopes))
         IN  IF has.kind = "NotFound" THEN has
             ELSE IF ~has.val THEN Ok(FALSE)
             ELSE Mix_hasScopes(cfg, field, Tail(scopes))

\* a membership loop that is satisfied by any one of the required names
Mix_allIncluded_Any(required, userRoles) ==
    \/ required = <<>>
    \/ \E i \in 1..Len(required) : Includes(userRoles, required[i])

\* the loop of hasRole and hasGroup
RECURSIVE Mix_allIncluded(_, _)
Mix_allIncluded(required, userRoles) ==
    IF required = <<>> THEN TRUE
    ELSE IF ~Includes(userRoles, Head(required)) THEN FALSE
    ELSE Mix_allIncluded(Tail(required), userRoles)

Mix_hasRole(field, role) ==
    Ok(Mix_allIncluded(ToArray(role), OrEmpty(Mix_getAcl(field))))

Mix_hasGroup(field, groups) ==
    Ok(Mix_allIncluded(ToArray(groups), OrEmpty(Mix_getAcl(field))))

----------------------------------------------------------------------------
(* Sequential use: one call at a time, made on both surfaces *)

Callers == {1, 2}

Fields == [dataRoles |-> dataRoles, dataGroups |-> dataGroups,
           aclRoles |-> aclRoles, aclGroups |-> aclGroups]

Init ==
    /\ aclConfig \in Configs
    /\ dataRoles = Absent
    /\ dataGroups = Absent
    /\ aclRoles = <<>>
    /\ aclGroups = <<>>
    /\ op = "idle"
    /\ arg = <<>>
    /\ svcResult = Undefined
    /\ mixResult = Undefined
    /\ pre = [dataRoles |-> Absent, dataGroups |-> Absent,
              aclRoles |-> <<>>, aclGroups |-> <<>>]
    /\ appended = <<>>
    /\ pc = [c \in Callers |-> "idle"]
    /\ call = [c \in Callers |-> <<>>]
    /\ seen = [c \in Callers |-> <<>>]
    /\ order = <<>>
    /\ writer = 0

\* a query that stores the role list it normalised with `?? []`
Query_WritesBack(o, a, sr, mr) ==
    /\ op = "idle"
    /\ op' = o
    /\ arg' = a
    /\ svcResult' = sr
    /\ mixResult' = mr
    /\ pre' = Fields
    /\ dataRoles' = Some(OrEmpty(dataRoles))
    /\ UNCHANGED <<aclConfig, dataGroups, aclRoles, aclGroups,
                   appended, raceVars>>

\* A completed query: both results recorded, no field written.
Query(o, a, sr, mr) ==
    /\ op = "idle"
    /\ op' = o
    /\ arg' = a
    /\ svcResult' = sr
    /\ mixResult' = mr
    /\ pre' = Fields
    /\ UNCHANGED <<aclConfig, entityVars, appended, raceVars>>

\* A completed mutation of the role lists.
SetRoles(o, a, svcList, mixList) ==
    /\ op = "idle"
    /\ Len(svcList) <= MaxRoles
    /\ Len(mixList) <= MaxRoles
    /\ dataRoles' = Data_setAcl(svcList)
    /\ aclRoles' = Mix_setAcl(mixList)
    /\ op' = o
    /\ arg' = a
    /\ svcResult' = Ok(<<>>)
    /\ mixResult' = Ok(<<>>)
    /\ pre' = Fields
    /\ UNCHANGED <<aclConfig, dataGroups, aclGroups, appended, raceVars>>

\* A completed mutation of the group lists.
SetGroups(o, a, svcList, mixList) ==
    /\ op = "idle"
    /\ Len(svcList) <= MaxGroups
    /\ Len(mixList) <= MaxGroups
    /\ dataGroups' = Data_setAcl(svcList)
    /\ aclGroups' = Mix_setAcl(mixList)
    /\ op' = o
    /\ arg' = a
    /\ svcResult' = Ok(<<>>)
    /\ mixResult' = Ok(<<>>)
    /\ pre' = Fields
    /\ UNCHANGED <<aclConfig, dataRoles, aclRoles, appended, raceVars>>

getRole ==
    \E role \in RoleNames :
        Query("getRole", role,
              Svc_getRole(aclConfig, role), Mix_getRole(aclConfig, role))

getGroup ==
    \E group \in GroupNames :
        Query("getGroup", group,
              Svc_getGroup(aclConfig, group), Mix_getGroup(aclConfig, group))

getDefaultGroup ==
    Query("getDefaultGroup", <<>>,
          Svc_getDefaultGroup(aclConfig), Mix_getDefaultGroup(aclConfig))

getRoleScopes ==
    \E role \in RoleArgs :
        Query("getRoleScopes", role,
              Svc_getRoleScopes(aclConfig, role),
              Mix_getRoleScopes(aclConfig, role))

getRoleScopesFromUser ==
    Query("getRoleScopesFromUser", <<>>,
          Svc_getRoleScopesFromUser(aclConfig, Data_getAcl(dataRoles)),
          Mix_getRoleScopesFromUser(aclConfig, Mix_getAcl(aclRoles)))

getGroupRoles ==
    \E group \in GroupRefs :
        Query("getGroupRoles", group,
              Svc_getGroupRoles(aclConfig, group),
              Mix_getGroupRoles(aclConfig, group))

getGroupScopes ==
    \E group \in GroupRefs :
        Query("getGroupScopes", group,
              Svc_getGroupScopes(aclConfig, group),
              Mix_getGroupScopes(aclConfig, group))

\* The four predicates are members of the ComposableACL class only;
\* BasicACLService declares none of them.
hasScope ==
    \E scope \in Scopes :
        Query("hasScope", scope, Undefined,
              Mix_hasScope(aclConfig, aclRoles, scope))

hasScopes ==
    \E scopes \in ScopeArgs :
        Query("hasScopes", scopes, Undefined,
              Mix_hasScopes(aclConfig, aclRoles, scopes))

hasRole ==
    \E role \in RoleArgs :
        Query("hasRole", role, Undefined, Mix_hasRole(aclRoles, role))

hasGroup ==
    \E groups \in GroupArgs :
        Query("hasGroup", groups, Undefined, Mix_hasGroup(aclGroups, groups))

assignRoleToUser ==
    \E role \in RoleArgs :
        SetRoles("assignRoleToUser", role,
                 Svc_assignRoleToUser(role), Mix_assignRoleToUser(role))

appendRoleToUser ==
    \E role \in RoleNames :
        SetRoles("appendRoleToUser", role,
                 Svc_appendRoleToUser(Data_getAcl(dataRoles), role),
                 Mix_appendRoleToUser(Mix_getAcl(aclRoles), role))

removeRoleFromUser ==
    \E role \in RoleArgs :
        SetRoles("removeRoleFromUser", role,
                 Svc_removeRoleFromUser(Data_getAcl(dataRoles), role),
                 Mix_removeRoleFromUser(Mix_getAcl(aclRoles), role))

assignGroupToUser ==
    \E group \in GroupArgs :
        SetGroups("assignGroupToUser", group,
                  Svc_assignGroupToUser(group), Mix_assignGroupToUser(group))

appendGroupToUser ==
    \E group \in EntityGroupNames :
        SetGroups("appendGroupToUser", group,
                  Svc_appendGroupToUser(Data_getAcl(dataGroups), group),
                  Mix_appendGroupToUser(Mix_getAcl(aclGroups), group))

removeGroupFromUser ==
    \E group \in GroupArgs :
        SetGroups("removeGroupFromUser", group,
                  Svc_removeGroupFromUser(Data_getAcl(dataGroups), group),
                  Mix_removeGroupFromUser(Mix_getAcl(aclGroups), group))

\* The caller takes the result; the next call can be made.
Return ==
    /\ op # "idle"
    /\ op' = "idle"
    /\ arg' = <<>>
    /\ svcResult' = Undefined
    /\ mixResult' = Undefined
    /\ pre' = Fields
    /\ appended' = IF op = "appendRoleToUser" THEN <<arg>> ELSE <<>>
    /\ UNCHANGED <<aclConfig, entityVars, raceVars>>

Next ==
    \/ getRole
    \/ getGroup
    \/ getDefaultGroup
    \/ getRoleScopes
    \/ getRoleScopesFromUser
    \/ getGroupRoles
    \/ getGroupScopes
    \/ hasScope
    \/ hasScopes
    \/ hasRole
    \/ hasGroup
    \/ assignRoleToUser
    \/ appendRoleToUser
    \/ removeRoleFromUser
    \/ assignGroupToUser
    \/ appendGroupToUser
    \/ removeGroupFromUser
    \/ Return

Spec == Init /\ [][Next]_vars

----------------------------------------------------------------------------
(* Overlapping use: two callers whose async mutation calls are in flight   *)
(* at the same time.  An async method runs its body, which has no await,   *)
(* to the end when it is called; its promise settles afterwards.           *)

RaceCall(c, o, a, svcList, mixList) ==
    /\ pc[c] = "idle"
    /\ Len(svcList) <= MaxRoles
    /\ Len(mixList) <= MaxRoles
    /\ dataRoles' = Data_setAcl(svcList)
    /\ aclRoles' = Mix_setAcl(mixList)
    /\ pc' = [pc EXCEPT ![c] = "pending"]
    /\ call' = [call EXCEPT ![c] = <<o, a>>]
    /\ seen' = [seen EXCEPT ![c] = <<OrEmpty(Mix_getAcl(aclRoles)), writer>>]
    /\ order' = Append(order, c)
    /\ writer' = c
    /\ UNCHANGED <<aclConfig, dataGroups, aclGroups, callVars>>

Race_assignRoleToUser(c) ==
    \E name \in RoleNames :
        RaceCall(c, "assignRoleToUser", name,
                 Svc_assignRoleToUser(Str(name)),
                 Mix_assignRoleToUser(Str(name)))

Race_appendRoleToUser(c) ==
    \E role \in RoleNames :
        RaceCall(c, "appendRoleToUser", role,
                 Svc_appendRoleToUser(Data_getAcl(dataRoles), role),
                 Mix_appendRoleToUser(Mix_getAcl(aclRoles), role))

Race_removeRoleFromUser(c) ==
    \E name \in RoleNames :
        RaceCall(c, "removeRoleFromUser", name,
                 Svc_removeRoleFromUser(Data_getAcl(dataRoles), Str(name)),
                 Mix_removeRoleFromUser(Mix_getAcl(aclRoles), Str(name)))

\* The promise of caller c settles and c resumes.
Settle(c) ==
    /\ pc[c] = "pending"
    /\ pc' = [pc EXCEPT ![c] = "idle"]
    /\ call' = [call EXCEPT ![c] = <<>>]
    /\ seen' = [seen EXCEPT ![c] = <<>>]
    /\ order' = SelectSeq(order, LAMBDA d : d # c)
    /\ UNCHANGED <<aclConfig, entityVars, callVars, writer>>

NextRace ==
    \E c \in Callers :
        \/ Race_assignRoleToUser(c)
        \/ Race_appendRoleToUser(c)
        \/ Race_removeRoleFromUser(c)
        \/ Settle(c)

SpecRace == Init /\ [][NextRace]_vars

----------------------------------------------------------------------------
(* Vocabulary of the properties *)

Configured(list, name) == \E r \in Range(list) : r.name = name

Entry(list, name) == CHOOSE r \in Range(list) : r.name = name

ScopesOf(name) == Entry(aclConfig.roles, name).scopes

AllConfigured(names) ==
    \A i \in 1..Len(names) : Configured(aclConfig.roles, names[i])

\* the first name of the list that is not a configured role
FirstUnknown(names) ==
    names[CHOOSE i \in 1..Len(names) :
            /\ ~Configured(aclConfig.roles, names[i])
            /\ \A j \in 1..(i-1) : Configured(aclConfig.roles, names[j])]

RECURSIVE SumLen(_, _)
SumLen(names, n) ==
    IF n = 0 THEN 0 ELSE SumLen(names, n-1) + Len(ScopesOf(names[n]))

\* out is the scopes of names[1], then those of names[2], ..., nothing
\* dropped, merged or reordered
IsConcat(out, names) ==
    /\ Len(out) = SumLen(names, Len(names))
    /\ \A i \in 1..Len(names) :
         \A j \in 1..Len(ScopesOf(names[i])) :
            out[SumLen(names, i-1) + j] = ScopesOf(names[i])[j]

\* the names of a `string | string[]` argument
NamesOf(a) == IF a.str THEN {a.v} ELSE Range(a.v)
ListOf(a)  == IF a.str THEN <<a.v>> ELSE a.v

Count(list, x) == Cardinality({ i \in 1..Len(list) : list[i] = x })

\* the list the external entity holds, null read as empty
DataRolesNow  == IF dataRoles.present THEN dataRoles.list ELSE <<>>
DataRolesPre  == IF pre.dataRoles.present THEN pre.dataRoles.list ELSE <<>>
DataGroupsNow == IF dataGroups.present THEN dataGroups.list ELSE <<>>

----------------------------------------------------------------------------
(* C1  hasScope *)

\* what getRoleScopesFromUser yields for the entity as it stands
ScopesOfUserNow == Mix_getRoleScopesFromUser(aclConfig, Mix_getAcl(aclRoles))

\* C1 as stated: for every entity, hasScope(entity, scope) returns a boolean,
\* true exactly when scope is in the list scopesOfUser(entity) yields.
C1_AsStated ==
    op = "hasScope" =>
        /\ mixResult.kind = "ok"
        /\ mixResult.val <=> /\ ScopesOfUserNow.kind = "ok"
                             /\ Includes(ScopesOfUserNow.val, arg)

\* some role listed before position n holds the scope
HeldBefore(n, scope) ==
    \E i \in 1..(n-1) : Includes(ScopesOf(aclRoles[i]), scope)

FirstUnknownAt ==
    CHOOSE i \in 1..Len(aclRoles) :
        /\ ~Configured(aclConfig.roles, aclRoles[i])
        /\ \A j \in 1..(i-1) : Configured(aclConfig.roles, aclRoles[j])

\* C1 amended: when every assigned role name is configured, hasScope returns
\* true exactly when scope is in the list scopesOfUser yields, and false when
\* no role is assigned; when some assigned name is not configured it returns
\* true if a role listed before the first such name holds the scope and fails
\* with NotFound for that name otherwise.
C1_HasScope ==
    op = "hasScope" =>
        /\ aclRoles = <<>> => mixResult = Ok(FALSE)
        /\ AllConfigured(aclRoles) =>
              /\ ScopesOfUserNow.kind = "ok"
              /\ mixResult = Ok(Includes(ScopesOfUserNow.val, arg))
        /\ ~AllConfigured(aclRoles) =>
              IF HeldBefore(FirstUnknownAt, arg)
              THEN mixResult = Ok(TRUE)
              ELSE mixResult = NotFound("Role", aclRoles[FirstUnknownAt])

\* hasScope found the scope in the second of two configured roles
C1_Witness ==
    /\ op = "hasScope"
    /\ Len(aclRoles) = 2
    /\ AllConfigured(aclRoles)
    /\ ~Includes(ScopesOf(aclRoles[1]), arg)
    /\ mixResult = Ok(TRUE)

----------------------------------------------------------------------------
(* C2  hasRole / hasGroup *)

\* C2: hasRole(entity, R) returns, never throws, and is true exactly when
\* every name of R (a single name counting as a list of one) is in the
\* entity's role list; hasGroup is the same over the group list.
C2_HasRoleHasGroup ==
    /\ op = "hasRole" =>
          mixResult = Ok(\A n \in NamesOf(arg) : n \in Range(aclRoles))
    /\ op = "hasGroup" =>
          mixResult = Ok(\A n \in NamesOf(arg) : n \in Range(aclGroups))

\* hasRole was true for two different names, one of them not a configured role
C2_Witness ==
    /\ op = "hasRole"
    /\ ~arg.str
    /\ Len(arg.v) = 2
    /\ arg.v[1] # arg.v[2]
    /\ ~AllConfigured(arg.v)
    /\ mixResult = Ok(TRUE)

----------------------------------------------------------------------------
(* C3  hasScopes *)

HasScopeNow(scope) == Mix_hasScope(aclConfig, aclRoles, scope)

\* C3: hasScopes(entity, S) is the AND of hasScope(entity, s) over s in S,
\* true for the empty S; it fails only when one of those hasScope calls fails.
C3_HasScopes ==
    op = "hasScopes" =>
        IF \A i \in 1..Len(arg) : HasScopeNow(arg[i]).kind = "ok"
        THEN mixResult = Ok(\A i \in 1..Len(arg) : HasScopeNow(arg[i]).val)
        ELSE mixResult.kind = "NotFound"

\* hasScopes was false for two scopes of which the entity has the first
C3_Witness ==
    /\ op = "hasScopes"
    /\ Len(arg) = 2
    /\ HasScopeNow(arg[1]) = Ok(TRUE)
    /\ HasScopeNow(arg[2]) = Ok(FALSE)
    /\ mixResult = Ok(FALSE)

----------------------------------------------------------------------------
(* C4  getRoleScopesFromUser *)

\* C4 as stated: [] for an absent or empty role list, otherwise the returned
\* list is the concatenation of the scopes of the assigned roles.
ReturnsConcat(result, roles) ==
    /\ result.kind = "ok"
    /\ roles = <<>> => result.val = <<>>
    /\ AllConfigured(roles) => IsConcat(result.val, roles)

C4_AsStated ==
    op = "getRoleScopesFromUser" =>
        /\ ReturnsConcat(mixResult, aclRoles)
        /\ ReturnsConcat(svcResult, DataRolesNow)

ScopesOfUserRight(result, roles) ==
    /\ roles = <<>> => result = Ok(<<>>)
    /\ AllConfigured(roles) =>
          /\ result.kind = "ok"
          /\ IsConcat(result.val, roles)
    /\ ~AllConfigured(roles) => result = NotFound("Role", FirstUnknown(roles))

\* C4 amended: [] for an absent or empty role list; otherwise, when every
\* assigned role name is configured, the concatenation in assignment order,
\* duplicates kept, of the scopes of each assigned role; when some assigned
\* name is not configured the call fails with NotFound for the first one.
C4_ScopesOfUser ==
    op = "getRoleScopesFromUser" =>
        /\ ScopesOfUserRight(mixResult, aclRoles)
        /\ ScopesOfUserRight(svcResult, DataRolesNow)
        /\ ~dataRoles.present => svcResult = Ok(<<>>)
        /\ (aclConfig = ConfigExample /\ aclRoles = <<"role_admin", "role_user">>)
              => mixResult = Ok(<<"read:all", "write:all", "delete:all",
                                  "read:own", "write:own">>)

\* the scopes of role_admin followed by those of role_user, on both surfaces
C4_Witness ==
    /\ op = "getRoleScopesFromUser"
    /\ aclConfig = ConfigExample
    /\ aclRoles = <<"role_admin", "role_user">>
    /\ dataRoles = Some(<<"role_admin", "role_user">>)
    /\ svcResult = Ok(<<"read:all", "write:all", "delete:all",
                        "read:own", "write:own">>)
    /\ mixResult = svcResult

----------------------------------------------------------------------------
(* C5  getRole / getGroup *)

LookupRight(result, list, kind, name) ==
    IF Configured(list, name)
    THEN /\ Cardinality({ i \in 1..Len(list) : list[i].name = name }) = 1
         /\ result = Ok(Entry(list, name))
    ELSE result = NotFound(kind, name)

\* C5: getRole returns the one configured role of that name and fails with
\* NotFound for any other name; getGroup does the same over the groups.
C5_Lookup ==
    /\ op = "getRole" =>
          /\ LookupRight(svcResult, aclConfig.roles, "Role", arg)
          /\ LookupRight(mixResult, aclConfig.roles, "Role", arg)
    /\ op = "getGroup" =>
          /\ LookupRight(svcResult, aclConfig.groups, "Group", arg)
          /\ LookupRight(mixResult, aclConfig.groups, "Group", arg)

\* getRole returned a role that is not the first of the configuration
C5_Witness ==
    /\ op = "getRole"
    /\ svcResult.kind = "ok"
    /\ svcResult.val = aclConfig.roles[2]
    /\ mixResult = svcResult

----------------------------------------------------------------------------
(* C6  removeRoleFromUser *)

\* the positions of before whose name is not removed
Kept(before, gone) == { i \in 1..Len(before) : before[i] \notin gone }

\* after is before with exactly the names of gone taken out, the rest in
\* their old relative order
IsDifference(after, before, gone) ==
    /\ \A r \in gone \cap Range(before) : r \notin Range(after)
    /\ \A r \in Range(before) \ gone : r \in Range(after)
    /\ Len(after) = Cardinality(Kept(before, gone))
    /\ \A i \in Kept(before, gone) :
          after[Cardinality({ j \in Kept(before, gone) : j <= i })] = before[i]

\* C6: after removeRoles(entity, L) hasRole is false for every name of L
\* that was assigned, true for every assigned name not in L, and the names
\* that remain keep their relative order.
C6_RemoveRoles ==
    op = "removeRoleFromUser" =>
        /\ IsDifference(aclRoles, pre.aclRoles, NamesOf(arg))
        /\ IsDifference(DataRolesNow, DataRolesPre, NamesOf(arg))
        /\ \A r \in NamesOf(arg) \cap Range(pre.aclRoles) :
              Mix_hasRole(aclRoles, Str(r)) = Ok(FALSE)
        /\ \A r \in Range(pre.aclRoles) \ NamesOf(arg) :
              Mix_hasRole(aclRoles, Str(r)) = Ok(TRUE)

\* two names were removed at once from a list of three different names,
\* the middle one staying
C6_Witness ==
    /\ op = "removeRoleFromUser"
    /\ ~arg.str
    /\ Len(pre.aclRoles) = 3
    /\ Cardinality(Range(pre.aclRoles)) = 3
    /\ NamesOf(arg) = {pre.aclRoles[1], pre.aclRoles[3]}
    /\ aclRoles = <<pre.aclRoles[2]>>
    /\ dataRoles = Some(aclRoles)

----------------------------------------------------------------------------
(* C7  assignRoleToUser *)

\* C7: after assignRoles(entity, L) the role list is L, whatever it held
\* before (also L itself, as when the call is repeated); a single name
\* becomes the list of that name.
C7_AssignRoles ==
    op = "assignRoleToUser" =>
        /\ aclRoles = ListOf(arg)
        /\ dataRoles = Some(ListOf(arg))

\* the same non-empty list assigned over itself
C7_Witness ==
    /\ op = "assignRoleToUser"
    /\ arg.str
    /\ pre.aclRoles = <<arg.v>>
    /\ pre.dataRoles = Some(<<arg.v>>)
    /\ aclRoles = <<arg.v>>
    /\ dataRoles = Some(<<arg.v>>)

----------------------------------------------------------------------------
(* C8  appendRoleToUser *)

\* C8: appendRole(entity, x) writes back the list it read (null read as
\* empty) with x added at the end, also when x is already there; a second
\* appendRole(entity, x) after a first that added a new x leaves x twice.
C8_AppendRole ==
    op = "appendRoleToUser" =>
        /\ aclRoles = pre.aclRoles \o <<arg>>
        /\ DataRolesNow = DataRolesPre \o <<arg>>
        /\ dataRoles.present
        /\ (appended = <<arg>> /\ Count(pre.aclRoles, arg) = 1) =>
              /\ Count(aclRoles, arg) = 2
              /\ Count(DataRolesNow, arg) = 2

\* the second of two appendRole(x) in a row, x not in the list before them
C8_Witness ==
    /\ op = "appendRoleToUser"
    /\ appended = <<arg>>
    /\ Len(aclRoles) = 3
    /\ aclRoles[1] # arg
    /\ aclRoles[2] = arg
    /\ aclRoles[3] = arg
    /\ dataRoles = Some(aclRoles)

----------------------------------------------------------------------------
(* C9  getGroupScopes *)

GroupScopesRight(result, ref) ==
    IF ref.str /\ ~Configured(aclConfig.groups, ref.v)
    THEN result = NotFound("Group", ref.v)
    ELSE LET names == IF ref.str THEN Entry(aclConfig.groups, ref.v).roles
                      ELSE ref.v.roles
         IN  IF AllConfigured(names)
             THEN /\ result.kind = "ok"
                  /\ IsConcat(result.val, names)
             ELSE result = NotFound("Role", FirstUnknown(names))

\* C9: getGroupScopes of a group name or a group value returns the scopes
\* of the group's roles concatenated in the group's role order, duplicates
\* kept; it fails with NotFound when the group name is not configured or
\* when a role the group names is not configured.
C9_GroupScopes ==
    op = "getGroupScopes" =>
        /\ GroupScopesRight(svcResult, arg)
        /\ GroupScopesRight(mixResult, arg)

\* a group of two roles that share a scope: the scope is returned twice
C9_Witness ==
    /\ op = "getGroupScopes"
    /\ aclConfig = ConfigLoose
    /\ arg = Str("admin")
    /\ svcResult = Ok(<<"read:all", "read:own", "read:all", "read:own">>)
    /\ mixResult = svcResult

----------------------------------------------------------------------------
(* C10  overlapping mutation calls, checked under SpecRace *)

BothInFlight == \A c \in Callers : pc[c] = "pending"

\* the later call was made right after the earlier one wrote
BackToBack == BothInFlight /\ seen[order[2]][2] = order[1]

First == order[1]
Last  == order[2]

\* what a mutation call makes of the list it read
Effect(c, list) ==
    CASE c[1] = "assignRoleToUser" -> <<c[2]>>
      [] c[1] = "appendRoleToUser" -> list \o <<c[2]>>
      [] c[1] = "removeRoleFromUser" -> SelectSeq(list, LAMBDA r : r # c[2])

TwoAppends ==
    /\ BackToBack
    /\ call[First][1] = "appendRoleToUser"
    /\ call[Last][1] = "appendRoleToUser"
    /\ call[First][2] # call[Last][2]

\* C10 as stated: two appendRole calls with different names in flight at
\* once end in a lost update, the list holding the last writer's name only
\* on top of what it held before the two calls.
C10_AsStated ==
    TwoAppends =>
        /\ aclRoles = seen[First][1] \o <<call[Last][2]>>
        /\ DataRolesNow = seen[First][1] \o <<call[Last][2]>>

\* C10 amended: a mutation is a read and a write of the entity with no
\* synchronization of its own, but the two happen in one synchronous run of
\* the method body; of two calls in flight at once the later one reads what
\* the earlier one wrote, so no update is lost: two appendRole calls with
\* names x then y leave the list ending in x, y.
C10_Serialized ==
    BothInFlight =>
        /\ BackToBack => seen[Last][1] = Effect(call[First], seen[First][1])
        /\ aclRoles = Effect(call[Last], seen[Last][1])
        /\ DataRolesNow = aclRoles
        /\ TwoAppends =>
              aclRoles = seen[First][1] \o <<call[First][2], call[Last][2]>>

\* two appendRole calls with different names in flight on an entity that
\* had one role
C10_Witness ==
    /\ TwoAppends
    /\ Len(seen[First][1]) = 1
    /\ Len(aclRoles) = 3
    /\ aclRoles[2] = call[First][2]
    /\ aclRoles[3] = call[Last][2]

----------------------------------------------------------------------------
(* C11  the service and the mixin side by side *)

\* both surfaces answered the last call alike
SameResult ==
    /\ svcResult.kind = mixResult.kind
    /\ svcResult.val = mixResult.val

\* both entities hold the same lists, null read as empty
SameLists ==
    /\ DataRolesNow = aclRoles
    /\ DataGroupsNow = aclGroups

\* the methods BasicACLService and ComposableACL both have
SharedOps ==
    {"getRole", "getGroup", "getDefaultGroup", "getRoleScopes",
     "getRoleScopesFromUser", "getGroupRoles", "getGroupScopes",
     "assignRoleToUser", "appendRoleToUser", "removeRoleFromUser",
     "assignGroupToUser", "appendGroupToUser", "removeGroupFromUser"}

\* C11: from an entity without roles and groups and under the same
\* configuration, every operation of the same sequence returns the same
\* value or the same NotFound failure on the service and on the mixin, and
\* the two entities hold the same role and group lists after every step.
C11_Equivalent ==
    /\ SameLists
    /\ op # "idle" => SameResult

\* What does hold: the two agree on every method both of them have.
C11_SharedOpsAgree ==
    /\ SameLists
    /\ op \in SharedOps => SameResult

----------------------------------------------------------------------------
(* C12  what a call leaves alone *)

QueryOps ==
    {"getRole", "getGroup", "getDefaultGroup", "getRoleScopes",
     "getRoleScopesFromUser", "getGroupRoles", "getGroupScopes",
     "hasScope", "hasScopes", "hasRole", "hasGroup"}

RoleMutations ==
    {"assignRoleToUser", "appendRoleToUser", "removeRoleFromUser"}

GroupMutations ==
    {"assignGroupToUser", "appendGroupToUser", "removeGroupFromUser"}

\* C12: no call changes the configuration; a lookup, aggregation or
\* predicate call, failing with NotFound or not, changes neither the role
\* list nor the group list; a role mutation leaves the group list alone and
\* a group mutation leaves the role list alone.
C12_Frame ==
    [][ /\ aclConfig' = aclConfig
        /\ op' \in QueryOps =>
              /\ dataRoles' = dataRoles
              /\ aclRoles' = aclRoles
              /\ dataGroups' = dataGroups
              /\ aclGroups' = aclGroups
        /\ op' \in RoleMutations =>
              /\ dataGroups' = dataGroups
              /\ aclGroups' = aclGroups
        /\ op' \in GroupMutations =>
              /\ dataRoles' = dataRoles
              /\ aclRoles' = aclRoles ]_vars

\* a query that failed with NotFound on both surfaces, on an entity that
\* never had roles set and holds a group: nothing was written
C12_Witness ==
    /\ op = "getGroupScopes"
    /\ svcResult.kind = "NotFound"
    /\ mixResult.kind = "NotFound"
    /\ ~dataRoles.present
    /\ aclRoles = <<>>
    /\ aclGroups # <<>>
    /\ Fields = pre

====
